---- MODULE Spec2Model ----
(***************************************************************************)
(* State-machine model of LearnOpenGL/main.cpp: context setup, the shader  *)
(* pipeline build, the render loop and shutdown.  The windowing library,   *)
(* the GL driver and the file system are the environment: their outcomes   *)
(* are chosen nondeterministically where the code branches on them.        *)
(***************************************************************************)
EXTENDS Integers, Sequences, FiniteSets, TLC

\* Largest number of render-loop iterations explored.
MaxFrames == 3

\* ---------------------------------------------------------------- data --

\* GPU handles main() creates.
Objects == {"vs", "fs", "prog", "vao", "vbo"}

\* What the file system holds at a shader path: no openable file, a file
\* that opens but whose read fails, a zero-length file, GLSL text that
\* compiles, GLSL text with a syntax error.
FileKinds == {"missing", "unreadable", "empty", "valid", "invalid"}

NotLoaded == "<not loaded>"
ValidText == "void main() { }"
InvalidText == "void main( {"

KeyStates == {"RELEASE", "PRESS"}

\* The statements of one loop iteration, in program order (lines 146-161).
IterationOrder ==
    <<"clear", "useProgram", "bindVAO", "draw", "processInput", "pollEvents", "swapBuffers">>

LoopPcs == {"loopCheck", "clear", "useProgram", "bindVAO", "draw",
            "processInput", "pollEvents", "swapBuffers"}

ShutdownPcs == {"deleteVAO", "deleteVBO", "deleteProgram", "terminate"}

VARIABLES
    pc,            \* position of main()
    exitCode,      \* "running", "success" (return 0) or "failure" (return -1)
    vfile, ffile,  \* what is on disk at vshader.vert / fshader.frag
    vsrc, fsrc,    \* vertexShaderSourceString / fragmentShaderSourceString
    created,       \* per handle: number of glCreate*/glGen* calls
    released,      \* per handle: number of glDelete* calls
    linked,        \* GL_LINK_STATUS of shaderProgram
    linkAttempted, \* glLinkProgram has been called
    stderr,        \* tags written to std::cerr, in order
    terminated,    \* glfwTerminate has been called
    shouldClose,   \* the window's close flag
    escKey,        \* cached state of GLFW_KEY_ESCAPE
    drawCount,     \* number of glDrawArrays calls
    frames,        \* number of loop iterations started
    iterLog,       \* calls made by the current (or last) iteration
    pressAt,       \* drawCount when a poll first recorded the escape press, or -1
    pressWithClose,\* that same poll also recorded a window-close request
    closeAt        \* drawCount when a poll first recorded a close request, or -1

vars == <<pc, exitCode, vfile, ffile, vsrc, fsrc, created, released, linked,
          linkAttempted, stderr, terminated, shouldClose, escKey, drawCount,
          frames, iterLog, pressAt, pressWithClose, closeAt>>

gpuVars == <<created, released, linked, linkAttempted>>
srcVars == <<vfile, ffile, vsrc, fsrc>>
loopVars == <<shouldClose, escKey, drawCount, frames, iterLog, pressAt,
              pressWithClose, closeAt>>

\* ------------------------------------------------------------- helpers --

glCreate(c, o) == [c EXCEPT ![o] = @ + 1]
glDelete(r, o) == [r EXCEPT ![o] = @ + 1]

Alive(o) == created[o] - released[o]

\* loadShaderSourceFromFile: the ifstream throws on failbit/badbit, so a
\* failed open throws and is reported.  The read goes through
\* shaderStream << rdbuf(): a failed or empty read sets failbit on the
\* stringstream, which has no exception mask, so nothing is thrown and
\* str() is the empty string.
loadShaderSourceBroken(kind) ==
    CASE kind = "missing"    -> [text |-> "ERROR::SHADER::FILE_NOT_SUCCESSFULLY_READ", report |-> <<"FILE_NOT_SUCCESSFULLY_READ">>]
      [] kind = "unreadable" -> [text |-> "ERROR::SHADER::FILE_NOT_SUCCESSFULLY_READ", report |-> <<>>]
      [] kind = "empty"      -> [text |-> "", report |-> <<>>]
      [] kind = "valid"      -> [text |-> ValidText, report |-> <<>>]
      [] kind = "invalid"    -> [text |-> InvalidText, report |-> <<>>]

loadShaderSourceFromFile(kind) ==
    CASE kind = "missing"    -> [text |-> "", report |-> <<"FILE_NOT_SUCCESSFULLY_READ">>]
      [] kind = "unreadable" -> [text |-> "", report |-> <<>>]
      [] kind = "empty"      -> [text |-> "", report |-> <<>>]
      [] kind = "valid"      -> [text |-> ValidText, report |-> <<>>]
      [] kind = "invalid"    -> [text |-> InvalidText, report |-> <<>>]

\* GL_COMPILE_STATUS the driver reports for a source text.
CompileStatus(source) == source = ValidText

\* compileShader: one glCreateShader; on failure the log is reported and
\* the shader deleted, and 0 is returned.
compileShaderLeak(type, source) ==
    [ok       |-> CompileStatus(source),
     deletes  |-> 0,
     report   |-> IF CompileStatus(source) THEN <<>>
                  ELSE <<type \o "::COMPILATION_FAILED">>]

compileShader(type, source) ==
    [ok       |-> CompileStatus(source),
     deletes  |-> IF CompileStatus(source) THEN 0 ELSE 1,
     report   |-> IF CompileStatus(source) THEN <<>>
                  ELSE <<type \o "::COMPILATION_FAILED">>]

\* processInput: the close flag after the call.
processInput(key, flag) == IF key = "PRESS" THEN TRUE ELSE flag

\* The while condition of the render loop.
LoopConditionIgnoresFlag(flag) == TRUE

LoopCondition(flag) == ~flag

\* if (!success) after glGetProgramiv(GL_LINK_STATUS).
LinkFatalIgnored(success) == FALSE

LinkFatal(success) == ~success

\* Successor of a statement of the loop body.
LoopBodyNextInputAfterPoll(step) ==
    CASE step = "clear"        -> "useProgram"
      [] step = "useProgram"   -> "bindVAO"
      [] step = "bindVAO"      -> "draw"
      [] step = "draw"         -> "pollEvents"
      [] step = "pollEvents"   -> "processInput"
      [] step = "processInput" -> "swapBuffers"
      [] step = "swapBuffers"  -> "loopCheck"

LoopBodyNextEarlyExit(step) ==
    CASE step = "clear"        -> "useProgram"
      [] step = "useProgram"   -> "bindVAO"
      [] step = "bindVAO"      -> "draw"
      [] step = "draw"         -> "processInput"
      [] step = "processInput" -> "loopCheck"
      [] step = "pollEvents"   -> "swapBuffers"
      [] step = "swapBuffers"  -> "loopCheck"

LoopBodyNext(step) ==
    CASE step = "clear"        -> "useProgram"
      [] step = "useProgram"   -> "bindVAO"
      [] step = "bindVAO"      -> "draw"
      [] step = "draw"         -> "processInput"
      [] step = "processInput" -> "pollEvents"
      [] step = "pollEvents"   -> "swapBuffers"
      [] step = "swapBuffers"  -> "loopCheck"

\* Clean-up of the link-failure branch (lines 94-96).
LinkFailureCleanupLeak(r) == glDelete(glDelete(r, "vs"), "fs")

LinkFailureCleanup(r) == glDelete(glDelete(glDelete(r, "vs"), "fs"), "prog")

\* Clean-up of shader objects after a successful link (lines 102-103).
LinkSuccessCleanupLeak(r) == glDelete(r, "vs")

LinkSuccessCleanup(r) == glDelete(glDelete(r, "vs"), "fs")

\* A fatal branch of main: glfwTerminate(); return -1;
Fatal ==
    /\ terminated' = TRUE
    /\ exitCode' = "failure"
    /\ pc' = "exited"

\* ---------------------------------------------------------------- init --

Init ==
    /\ pc = "createWindow"
    /\ exitCode = "running"
    /\ vfile \in FileKinds
    /\ ffile \in FileKinds
    /\ vsrc = NotLoaded
    /\ fsrc = NotLoaded
    /\ created = [o \in Objects |-> 0]
    /\ released = [o \in Objects |-> 0]
    /\ linked = FALSE
    /\ linkAttempted = FALSE
    /\ stderr = <<>>
    /\ terminated = FALSE
    /\ shouldClose = FALSE
    /\ escKey = "RELEASE"
    /\ drawCount = 0
    /\ frames = 0
    /\ iterLog = <<>>
    /\ pressAt = -1
    /\ pressWithClose = FALSE
    /\ closeAt = -1

\* ------------------------------------------------------- context setup --

\* glfwCreateWindow and its NULL check.
CreateWindow ==
    /\ pc = "createWindow"
    /\ \E ok \in BOOLEAN :
          IF ok
          THEN /\ pc' = "loadGL"
               /\ UNCHANGED <<exitCode, stderr, terminated>>
          ELSE /\ stderr' = Append(stderr, "Failed to create GLFW window")
               /\ Fatal
    /\ UNCHANGED <<gpuVars, srcVars, loopVars>>

\* gladLoadGLLoader and its check; then glViewport and the resize callback.
LoadGL ==
    /\ pc = "loadGL"
    /\ \E ok \in BOOLEAN :
          IF ok
          THEN /\ pc' = "loadVS"
               /\ UNCHANGED <<exitCode, stderr, terminated>>
          ELSE /\ stderr' = Append(stderr, "Failed to initialize GLAD")
               /\ Fatal
    /\ UNCHANGED <<gpuVars, srcVars, loopVars>>

\* ----------------------------------------------------- shader pipeline --

LoadVertexSource ==
    /\ pc = "loadVS"
    /\ LET r == loadShaderSourceFromFile(vfile) IN
          /\ vsrc' = r.text
          /\ stderr' = stderr \o r.report
          /\ IF r.text = ""
             THEN Fatal
             ELSE /\ pc' = "loadFS"
                  /\ UNCHANGED <<exitCode, terminated>>
    /\ UNCHANGED <<gpuVars, vfile, ffile, fsrc, loopVars>>

LoadFragmentSource ==
    /\ pc = "loadFS"
    /\ LET r == loadShaderSourceFromFile(ffile) IN
          /\ fsrc' = r.text
          /\ stderr' = stderr \o r.report
          /\ IF r.text = ""
             THEN Fatal
             ELSE /\ pc' = "compileVS"
                  /\ UNCHANGED <<exitCode, terminated>>
    /\ UNCHANGED <<gpuVars, vfile, ffile, vsrc, loopVars>>

CompileVertex ==
    /\ pc = "compileVS"
    /\ LET r == compileShader("VERTEX", vsrc) IN
          /\ created' = glCreate(created, "vs")
          /\ released' = [released EXCEPT !["vs"] = @ + r.deletes]
          /\ stderr' = stderr \o r.report
          /\ IF ~r.ok
             THEN Fatal
             ELSE /\ pc' = "compileFS"
                  /\ UNCHANGED <<exitCode, terminated>>
    /\ UNCHANGED <<linked, linkAttempted, srcVars, loopVars>>

CompileFragment ==
    /\ pc = "compileFS"
    /\ LET r == compileShader("FRAGMENT", fsrc) IN
          /\ created' = glCreate(created, "fs")
          /\ stderr' = stderr \o r.report
          /\ IF ~r.ok
             THEN /\ released' = glDelete([released EXCEPT !["fs"] = @ + r.deletes], "vs")
                  /\ Fatal
             ELSE /\ released' = [released EXCEPT !["fs"] = @ + r.deletes]
                  /\ pc' = "link"
                  /\ UNCHANGED <<exitCode, terminated>>
    /\ UNCHANGED <<linked, linkAttempted, srcVars, loopVars>>

\* glCreateProgram, the two glAttachShader, glLinkProgram, the status check
\* and the shader deletions of either branch.
LinkProgram ==
    /\ pc = "link"
    /\ \E success \in BOOLEAN :
          /\ created' = glCreate(created, "prog")
          /\ linkAttempted' = TRUE
          /\ linked' = success
          /\ IF LinkFatal(success)
             THEN /\ stderr' = Append(stderr, "PROGRAM::LINKING_FAILED")
                  /\ released' = LinkFailureCleanup(released)
                  /\ Fatal
             ELSE /\ released' = LinkSuccessCleanup(released)
                  /\ pc' = "vertexSetup"
                  /\ UNCHANGED <<exitCode, stderr, terminated>>
    /\ UNCHANGED <<srcVars, loopVars>>

\* glGenVertexArrays, glGenBuffers, upload and attribute layout.
VertexSetup ==
    /\ pc = "vertexSetup"
    /\ created' = glCreate(glCreate(created, "vao"), "vbo")
    /\ pc' = "loopCheck"
    /\ UNCHANGED <<released, linked, linkAttempted, exitCode, stderr, terminated,
                   srcVars, loopVars>>

\* --------------------------------------------------------- render loop --

envVars == <<exitCode, stderr, terminated, gpuVars, srcVars>>

\* while (!glfwWindowShouldClose(window))
LoopCheck ==
    /\ pc = "loopCheck"
    /\ IF LoopCondition(shouldClose)
       THEN /\ frames < MaxFrames
            /\ frames' = frames + 1
            /\ iterLog' = <<>>
            /\ pc' = "clear"
       ELSE /\ pc' = "deleteVAO"
            /\ UNCHANGED <<frames, iterLog>>
    /\ UNCHANGED <<envVars, shouldClose, escKey, drawCount, pressAt,
                   pressWithClose, closeAt>>

\* glClearColor; glClear
Clear ==
    /\ pc = "clear"
    /\ iterLog' = Append(iterLog, "clear")
    /\ pc' = LoopBodyNext("clear")
    /\ UNCHANGED <<envVars, shouldClose, escKey, drawCount, frames, pressAt,
                   pressWithClose, closeAt>>

UseProgram ==
    /\ pc = "useProgram"
    /\ iterLog' = Append(iterLog, "useProgram")
    /\ pc' = LoopBodyNext("useProgram")
    /\ UNCHANGED <<envVars, shouldClose, escKey, drawCount, frames, pressAt,
                   pressWithClose, closeAt>>

BindVertexArray ==
    /\ pc = "bindVAO"
    /\ iterLog' = Append(iterLog, "bindVAO")
    /\ pc' = LoopBodyNext("bindVAO")
    /\ UNCHANGED <<envVars, shouldClose, escKey, drawCount, frames, pressAt,
                   pressWithClose, closeAt>>

\* glDrawArrays(GL_TRIANGLES, 0, 3)
DrawArrays ==
    /\ pc = "draw"
    /\ drawCount' = drawCount + 1
    /\ iterLog' = Append(iterLog, "draw")
    /\ pc' = LoopBodyNext("draw")
    /\ UNCHANGED <<envVars, shouldClose, escKey, frames, pressAt,
                   pressWithClose, closeAt>>

ProcessInput ==
    /\ pc = "processInput"
    /\ shouldClose' = processInput(escKey, shouldClose)
    /\ iterLog' = Append(iterLog, "processInput")
    /\ pc' = LoopBodyNext("processInput")
    /\ UNCHANGED <<envVars, escKey, drawCount, frames, pressAt,
                   pressWithClose, closeAt>>

\* glfwPollEvents: the pending key events leave the escape key in some
\* state, and a pending window-close request sets the close flag.
PollEvents ==
    /\ pc = "pollEvents"
    /\ \E key \in KeyStates, closeRequest \in BOOLEAN :
          /\ escKey' = key
          /\ shouldClose' = (shouldClose \/ closeRequest)
          /\ IF pressAt = -1 /\ escKey = "RELEASE" /\ key = "PRESS"
             THEN /\ pressAt' = drawCount
                  /\ pressWithClose' = closeRequest
             ELSE UNCHANGED <<pressAt, pressWithClose>>
          /\ closeAt' = IF closeAt = -1 /\ closeRequest THEN drawCount ELSE closeAt
    /\ iterLog' = Append(iterLog, "pollEvents")
    /\ pc' = LoopBodyNext("pollEvents")
    /\ UNCHANGED <<envVars, drawCount, frames>>

SwapBuffers ==
    /\ pc = "swapBuffers"
    /\ iterLog' = Append(iterLog, "swapBuffers")
    /\ pc' = LoopBodyNext("swapBuffers")
    /\ UNCHANGED <<envVars, shouldClose, escKey, drawCount, frames, pressAt,
                   pressWithClose, closeAt>>

\* ------------------------------------------------------------ shutdown --

DeleteVertexArraysSkipped ==
    /\ pc = "deleteVAO"
    /\ pc' = "deleteVBO"
    /\ UNCHANGED <<released, created, linked, linkAttempted, exitCode, stderr,
                   terminated, srcVars, loopVars>>

DeleteVertexArrays ==
    /\ pc = "deleteVAO"
    /\ released' = glDelete(released, "vao")
    /\ pc' = "deleteVBO"
    /\ UNCHANGED <<created, linked, linkAttempted, exitCode, stderr, terminated,
                   srcVars, loopVars>>

DeleteBuffers ==
    /\ pc = "deleteVBO"
    /\ released' = glDelete(released, "vbo")
    /\ pc' = "deleteProgram"
    /\ UNCHANGED <<created, linked, linkAttempted, exitCode, stderr, terminated,
                   srcVars, loopVars>>

DeleteProgram ==
    /\ pc = "deleteProgram"
    /\ released' = glDelete(released, "prog")
    /\ pc' = "terminate"
    /\ UNCHANGED <<created, linked, linkAttempted, exitCode, stderr, terminated,
                   srcVars, loopVars>>

\* glfwTerminate(); return 0;
Terminate ==
    /\ pc = "terminate"
    /\ terminated' = TRUE
    /\ exitCode' = "success"
    /\ pc' = "exited"
    /\ UNCHANGED <<stderr, gpuVars, srcVars, loopVars>>

Next ==
    \/ CreateWindow
    \/ LoadGL
    \/ LoadVertexSource
    \/ LoadFragmentSource
    \/ CompileVertex
    \/ CompileFragment
    \/ LinkProgram
    \/ VertexSetup
    \/ LoopCheck
    \/ Clear
    \/ UseProgram
    \/ BindVertexArray
    \/ DrawArrays
    \/ ProcessInput
    \/ PollEvents
    \/ SwapBuffers
    \/ DeleteVertexArrays
    \/ DeleteBuffers
    \/ DeleteProgram
    \/ Terminate

Spec == Init /\ [][Next]_vars

TypeOK ==
    /\ pc \in LoopPcs \cup ShutdownPcs \cup
              {"createWindow", "loadGL", "loadVS", "loadFS", "compileVS",
               "compileFS", "link", "vertexSetup", "exited"}
    /\ exitCode \in {"running", "success", "failure"}
    /\ created \in [Objects -> 0..1]
    /\ released \in [Objects -> 0..1]
    /\ frames \in 0..MaxFrames
    /\ drawCount \in 0..MaxFrames

\* ---------------------------------------------------------- properties --

IsPrefix(s, t) == Len(s) <= Len(t) /\ \A i \in 1..Len(s) : s[i] = t[i]

NormalExit == pc = "exited" /\ exitCode = "success"
FatalExit == pc = "exited" /\ exitCode = "failure"

\* Files the loader cannot open or read.
Unloadable == {"missing", "unreadable"}

\* C1: on the normal exit path the vertex array, the vertex buffer and the
\* shader program have each been created once and released exactly once by
\* the time glfwTerminate is reached and when main returns 0; during
\* shutdown none is ever released twice.
C1_NormalExitReleasesOnce ==
    /\ pc \in ShutdownPcs \cup {"exited"} /\ exitCode # "failure"
          => \A o \in {"vao", "vbo", "prog"} : created[o] = 1 /\ released[o] <= 1
    /\ pc = "terminate" \/ NormalExit
          => \A o \in {"vao", "vbo", "prog"} : released[o] = 1

C1_Witness == NormalExit /\ terminated /\ released["vbo"] = 1

\* C2: when main has returned -1, every GPU object created before the
\* error was detected has been released exactly once.
C2_FatalExitReleasesAll ==
    FatalExit => \A o \in Objects : created[o] <= 1 /\ released[o] = created[o]

C2_Witness == FatalExit /\ created["prog"] = 1 /\ created["vs"] = 1

\* C3: when a shader source file cannot be opened or read, the loader
\* returns the empty string, and main exits with a failure status with no
\* program object created and no loop iteration started.
C3_UnloadableFileStopsBeforeProgram ==
    /\ vsrc # NotLoaded /\ vfile \in Unloadable => vsrc = ""
    /\ fsrc # NotLoaded /\ ffile \in Unloadable => fsrc = ""
    /\ \/ vsrc # NotLoaded /\ vfile \in Unloadable
       \/ fsrc # NotLoaded /\ ffile \in Unloadable
       => /\ FatalExit
          /\ created["prog"] = 0
          /\ ~linkAttempted
          /\ frames = 0

C3_Witness == FatalExit /\ vsrc = ValidText /\ ffile = "missing" /\ fsrc = ""

\* C4: when compilation of the vertex or of the fragment shader fails, the
\* shader object compileShader created has been released, main has exited
\* with a failure status, and no program was created, attached or linked.
C4_CompileFailureStopsBeforeLink ==
    /\ created["vs"] = 1 /\ ~CompileStatus(vsrc)
          => released["vs"] = 1 /\ FatalExit /\ created["prog"] = 0 /\ ~linkAttempted
    /\ created["fs"] = 1 /\ ~CompileStatus(fsrc)
          => released["fs"] = 1 /\ FatalExit /\ created["prog"] = 0 /\ ~linkAttempted

C4_Witness == created["fs"] = 1 /\ ~CompileStatus(fsrc) /\ released["vs"] = 1

\* C5 as stated: once both shaders have loaded and compiled and the link
\* has been attempted, the link has succeeded.
C5_CompiledShadersAlwaysLink ==
    CompileStatus(vsrc) /\ CompileStatus(fsrc) /\ linkAttempted => linked

\* C5 amended: whenever the render loop is entered (which needs both
\* shaders compiled and the link successful), exactly one program object
\* exists and it is linked.
C5_LoopHasOneLinkedProgram ==
    pc \in LoopPcs =>
        /\ CompileStatus(vsrc) /\ CompileStatus(fsrc)
        /\ linkAttempted /\ linked
        /\ created["prog"] = 1 /\ released["prog"] = 0

C5_Witness == pc = "loopCheck" /\ frames = 0 /\ linked

\* C6: processInput sets the close flag when it sees escape pressed; once
\* the close flag is set it stays set, no further glDrawArrays is issued,
\* and the next evaluation of the loop condition leaves the loop.
C6_CloseFlagStopsDrawing ==
    [][ /\ pc = "processInput" /\ escKey = "PRESS" => shouldClose'
        /\ shouldClose => shouldClose' /\ drawCount' = drawCount
        /\ pc = "loopCheck" /\ shouldClose => pc' = "deleteVAO" ]_vars

C6_Witness == NormalExit /\ shouldClose /\ pressAt # -1 /\ closeAt = -1

\* C7: no run exits with a failure status without an error report on
\* standard error.
C7_FatalExitReported == FatalExit => stderr # <<>>

\* C8: after glLinkProgram, on either outcome, each shader object has been
\* deleted exactly once; inside the render loop no shader object is alive
\* and the program is.
C8_ShadersTransient ==
    /\ linkAttempted =>
          \A s \in {"vs", "fs"} : created[s] = 1 /\ released[s] = 1
    /\ pc \in LoopPcs =>
          Alive("vs") = 0 /\ Alive("fs") = 0 /\ Alive("prog") = 1

C8_Witness == pc = "draw" /\ released["fs"] = 1 /\ Alive("prog") = 1

\* C9: an iteration performs clear, use program, bind vertex array, draw,
\* process input, poll events, swap buffers in that order, each once: the
\* calls made so far are always a prefix of that order, the next statement
\* is the next of that order, and the loop condition is evaluated (and the
\* loop left) only after a complete iteration.
C9_IterationOrder ==
    /\ IsPrefix(iterLog, IterationOrder)
    /\ pc \in LoopPcs \ {"loopCheck"} =>
          /\ Len(iterLog) < Len(IterationOrder)
          /\ pc = IterationOrder[Len(iterLog) + 1]
    /\ pc = "loopCheck" /\ frames > 0 => iterLog = IterationOrder
    /\ pc \in ShutdownPcs \/ NormalExit => iterLog = IterationOrder
    /\ drawCount <= frames

C9_Witness == pc = "loopCheck" /\ frames = 2 /\ drawCount = 2

\* C10 as stated: every run in which a poll recorded an escape press ends
\* with exactly one draw call after that poll.
C10_PressAlwaysOneMoreDraw ==
    NormalExit /\ pressAt # -1 => drawCount = pressAt + 1

\* C10 amended: after the poll that records an escape press, exactly one
\* more draw call is issued and the loop exits, unless that same poll also
\* recorded a window-close request; a poll that records a window-close
\* request is followed by no draw call.
C10_CloseSignalLatency ==
    /\ pressAt # -1 /\ ~pressWithClose =>
          /\ drawCount <= pressAt + 1
          /\ pc \in ShutdownPcs \cup {"exited"} => drawCount = pressAt + 1
    /\ pressAt # -1 /\ pressWithClose => drawCount = pressAt
    /\ closeAt # -1 => drawCount = closeAt /\ shouldClose

C10_Witness ==
    NormalExit /\ pressAt # -1 /\ ~pressWithClose /\ drawCount = pressAt + 1
    /\ closeAt = -1

====
